---- MODULE Spec2Model ----
(***************************************************************************)
(* Model of the sentiment fusion engine of src/api.py (news sentiment and  *)
(* summary backend).                                                       *)
(*                                                                         *)
(* Representation.                                                         *)
(*   - A text is a sequence of Unicode code points.  Python's None is the  *)
(*     one-element sequence NoneText, whose element is no code point.      *)
(*   - Scores (ko_score, tb_polarity, en_boost) are fixed-point integers   *)
(*     in units of 10^-5, so 1.0 is One.  The fusion weights of lines      *)
(*     222/228 are written in tenths, so the fused score `final` and the   *)
(*     returned polarity are integers in units of 10^-6 (1.0 is FinalOne). *)
(*     The arithmetic is the exact decimal arithmetic of the source's      *)
(*     formulas; binary floating-point representation error is not         *)
(*     modelled.                                                           *)
(*   - The translator (deep_translator) and the classifier (TextBlob) are  *)
(*     external: each call nondeterministically yields one of the outcomes *)
(*     the library can produce, an exception included.                     *)
(***************************************************************************)
EXTENDS Integers, Sequences, FiniteSets, TLC

\* EN_POSITIVE (api.py 108-117): good great best win success grow ...
EN_POSITIVE ==
  {
    <<103,111,111,100>>,
    <<103,114,101,97,116>>,
    <<98,101,115,116>>,
    <<119,105,110>>,
    <<115,117,99,99,101,115,115>>,
    <<103,114,111,119>>,
    <<115,117,114,103,101>>,
    <<98,111,111,115,116>>,
    <<114,105,115,101>>,
    <<103,97,105,110>>,
    <<112,114,111,102,105,116>>,
    <<114,101,99,111,114,100>>,
    <<98,114,101,97,107,116,104,114,111,117,103,104>>,
    <<105,109,112,114,111,118,101>>,
    <<108,111,118,101>>,
    <<104,97,112,112,121>>,
    <<101,120,99,101,108,108,101,110,116>>,
    <<115,116,114,111,110,103>>,
    <<108,97,117,110,99,104>>,
    <<105,110,110,111,118,97,116,105,111,110>>,
    <<115,117,112,112,111,114,116>>,
    <<114,101,99,111,118,101,114>>,
    <<112,111,115,105,116,105,118,101>>,
    <<104,111,112,101>>,
    <<116,111,112>>,
    <<104,105,103,104>>,
    <<108,101,97,100>>,
    <<97,119,97,114,100>>,
    <<106,111,121>>,
    <<119,111,110,100,101,114,102,117,108>>,
    <<102,97,110,116,97,115,116,105,99>>,
    <<97,109,97,122,105,110,103>>,
    <<100,101,108,105,103,104,116>>,
    <<112,108,101,97,115,117,114,101>>,
    <<98,101,97,117,116,105,102,117,108>>,
    <<98,114,105,108,108,105,97,110,116>>,
    <<97,119,101,115,111,109,101>>,
    <<99,101,108,101,98,114,97,116,101>>,
    <<103,108,97,100>>,
    <<99,104,101,101,114,102,117,108>>,
    <<101,120,99,105,116,101,100>>,
    <<116,104,114,105,108,108,101,100>>,
    <<111,112,116,105,109,105,115,116,105,99>>,
    <<112,114,111,117,100>>,
    <<103,114,97,116,101,102,117,108>>,
    <<102,111,114,116,117,110,97,116,101>>,
    <<104,97,112,112,105,110,101,115,115>>,
    <<115,97,116,105,115,102,97,99,116,105,111,110>>,
    <<105,109,112,114,101,115,115,105,118,101>>,
    <<114,101,109,97,114,107,97,98,108,101>>,
    <<111,117,116,115,116,97,110,100,105,110,103>>
  }

\* EN_NEGATIVE (api.py 119-129): bad worst fail loss crash fall ...
EN_NEGATIVE ==
  {
    <<98,97,100>>,
    <<119,111,114,115,116>>,
    <<102,97,105,108>>,
    <<108,111,115,115>>,
    <<99,114,97,115,104>>,
    <<102,97,108,108>>,
    <<100,114,111,112>>,
    <<107,105,108,108>>,
    <<100,101,97,116,104>>,
    <<119,97,114>>,
    <<97,116,116,97,99,107>>,
    <<99,114,105,115,105,115>>,
    <<102,101,97,114>>,
    <<116,104,114,101,97,116>>,
    <<100,101,99,108,105,110,101>>,
    <<100,111,119,110>>,
    <<99,117,116>>,
    <<102,105,114,101>>,
    <<102,114,97,117,100>>,
    <<115,99,97,110,100,97,108>>,
    <<114,105,115,107>>,
    <<100,97,110,103,101,114>>,
    <<99,111,108,108,97,112,115,101>>,
    <<100,101,115,116,114,111,121>>,
    <<98,111,109,98>>,
    <<116,101,114,114,111,114>>,
    <<114,101,99,101,115,115,105,111,110>>,
    <<108,97,121,111,102,102>>,
    <<118,105,99,116,105,109>>,
    <<115,117,102,102,101,114>>,
    <<119,114,111,110,103>>,
    <<100,101,98,116>>,
    <<98,97,110,107,114,117,112,116>>,
    <<110,101,103,97,116,105,118,101>>,
    <<115,97,100>>,
    <<116,101,114,114,105,98,108,101>>,
    <<104,111,114,114,105,98,108,101>>,
    <<97,119,102,117,108>>,
    <<112,97,105,110>>,
    <<103,114,105,101,102>>,
    <<97,110,103,114,121>>,
    <<104,97,116,101>>,
    <<109,105,115,101,114,121>>,
    <<115,111,114,114,111,119>>,
    <<116,114,97,103,101,100,121>>,
    <<100,105,115,97,115,116,101,114>>,
    <<100,101,115,112,97,105,114>>,
    <<119,111,114,114,105,101,100>>,
    <<100,105,115,97,112,112,111,105,110,116,101,100>>,
    <<102,114,117,115,116,114,97,116,101,100>>,
    <<97,108,97,114,109,105,110,103>>,
    <<100,101,118,97,115,116,97,116,105,110,103>>,
    <<115,97,100,110,101,115,115>>,
    <<97,110,120,105,101,116,121>>,
    <<100,101,112,114,101,115,115,105,111,110>>,
    <<108,111,110,101,108,105,110,101,115,115>>,
    <<114,101,103,114,101,116>>
  }

\* KO_POSITIVE (api.py 132-138), in list order
KO_POSITIVE ==
  <<
    <<44592,49256>>,
    <<44592,49240>>,
    <<54665,48373>>,
    <<49324,46993>>,
    <<51339,45796>>,
    <<51339,51008>>,
    <<51339,50500>>,
    <<54988,47469>>,
    <<47691,51652>>,
    <<47691,51648>>,
    <<52572,44256>>,
    <<49457,44277>>,
    <<44048,49324>>,
    <<51600,44144>>,
    <<51600,44161>>,
    <<52629,54616>>,
    <<49849,47532>>,
    <<55148,47581>>,
    <<51025,50896>>,
    <<45824,48149>>,
    <<50864,49688>>,
    <<53441,50900>>,
    <<44557,51221>>,
    <<47564,51313>>,
    <<54872,50689>>,
    <<44048,46041>>,
    <<49100,46319>>,
    <<51088,46993>>,
    <<49888,45208>>,
    <<49888,45212>>,
    <<50883,51020>>,
    <<54872,54840>>,
    <<52268,49324>>,
    <<48372,46988>>,
    <<49444,47112>>,
    <<44592,45824>>,
    <<51096,54664>>,
    <<51096,54620>>,
    <<52572,49440>>,
    <<48156,51204>>,
    <<49345,49849>>,
    <<54840,51312>>,
    <<55121,51088>>,
    <<51060,51061>>,
    <<49688,51061>>,
    <<44221,49324>>,
    <<48373>>,
    <<44148,44053>>,
    <<54217,54868>>,
    <<54868,54633>>
  >>

\* KO_NEGATIVE (api.py 140-146), in list order
KO_NEGATIVE ==
  <<
    <<49836,54548>>,
    <<49836,54532>>,
    <<48516,45432>>,
    <<49892,54056>>,
    <<45208,49240>>,
    <<45208,49244>>,
    <<52572,50501>>,
    <<50948,44592>>,
    <<51204,51137>>,
    <<49324,47581>>,
    <<51453,51020>>,
    <<51453,50632>>,
    <<44277,54252>>,
    <<48520,50504>>,
    <<44145,51221>>,
    <<44256,53685>>,
    <<51208,47581>>,
    <<48708,44537>>,
    <<51116,45212>>,
    <<54028,44340>>,
    <<49552,49892>>,
    <<54616,46973>>,
    <<54253,46973>>,
    <<52840,52404>>,
    <<48512,51221>>,
    <<54800,50724>>,
    <<51613,50724>>,
    <<44340,47196>>,
    <<45576,47932>>,
    <<54980,54924>>,
    <<49892,47581>>,
    <<54056,48176>>,
    <<51340,51208>>,
    <<46160,47140>>,
    <<50864,50872>>,
    <<50808,47196>>,
    <<44256,46021>>,
    <<50896,47581>>,
    <<51201,51088>>,
    <<54028,49328>>,
    <<54644,44256>>,
    <<49324,44256>>,
    <<54588,54644>>,
    <<50948,54744>>,
    <<54253,47141>>,
    <<48276,51396>>,
    <<53580,47084>>,
    <<48730>>,
    <<48512,52292>>,
    <<53444,54645>>
  >>

\* ''
TxtEmpty == <<>>
\* '   '
TxtBlank == <<32,32,32>>
\* '[removed]'
TxtRemoved == <<91,114,101,109,111,118,101,100,93>>
\* '\uae30\uc0ac [Removed] \ub05d'
TxtRemovedInside == <<44592,49324,32,91,82,101,109,111,118,101,100,93,32,45149>>
\* '(\uc81c\ubaa9 \uc5c6\uc74c). good news'
TxtNoTitle == <<40,51228,47785,32,50630,51020,41,46,32,103,111,111,100,32,110,101,119,115>>
\* '\uae30\uc068'
TxtJoy == <<44592,49256>>
\* '\uc2ac\ud514'
TxtSad == <<49836,54548>>
\* '\ud68c\uc758\uc2e4 \uc608\uc57d'
TxtRoom == <<54924,51032,49892,32,50696,50557>>
\* '\uc131\uacf5\uacfc \uc2e4\ud328'
TxtMixed == <<49457,44277,44284,32,49892,54056>>
\* '\u314b\u314b ok'
TxtJamo == <<12619,12619,32,111,107>>
\* 'good news'
TxtGoodNews == <<103,111,111,100,32,110,101,119,115>>
\* 'This is terrible and horrible news'
TxtTerrible == <<84,104,105,115,32,105,115,32,116,101,114,114,105,98,108,101,32,97,110,100,32,104,111,114,114,105,98,108,101,32,110,101,119,115>>
\* 'The meeting is scheduled for Monday'
TxtMeeting == <<84,104,101,32,109,101,101,116,105,110,103,32,105,115,32,115,99,104,101,100,117,108,101,100,32,102,111,114,32,77,111,110,100,97,121>>
\* 'good great best win success grow surge boost'
TxtManyPos == <<103,111,111,100,32,103,114,101,97,116,32,98,101,115,116,32,119,105,110,32,115,117,99,99,101,115,115,32,103,114,111,119,32,115,117,114,103,101,32,98,111,111,115,116>>
\* 'bad worst fail loss crash fall drop kill'
TxtManyNeg == <<98,97,100,32,119,111,114,115,116,32,102,97,105,108,32,108,111,115,115,32,99,114,97,115,104,32,102,97,108,108,32,100,114,111,112,32,107,105,108,108>>
\* 'Good good GREAT great. best win success grow surge boost bad.'
TxtPunct == <<71,111,111,100,32,103,111,111,100,32,71,82,69,65,84,32,103,114,101,97,116,46,32,98,101,115,116,32,119,105,110,32,115,117,99,99,101,115,115,32,103,114,111,119,32,115,117,114,103,101,32,98,111,111,115,116,32,98,97,100,46>>
\* '\u3053\u3093\u306b\u3061\u306f'
TxtKana == <<12371,12435,12395,12385,12399>>
\* 'joy'
RepJoy == <<106,111,121>>
\* ' sadness '
RepSadness == <<32,115,97,100,110,101,115,115,32>>
\* 'reserve a meeting room'
RepRoom == <<114,101,115,101,114,118,101,32,97,32,109,101,101,116,105,110,103,32,114,111,111,109>>
\* 'failure and crisis'
RepCrisis == <<102,97,105,108,117,114,101,32,97,110,100,32,99,114,105,115,105,115>>
\* 'good '
GoodSp == <<103,111,111,100,32>>
\* ' '
Space == <<32>>
\* '(\ubd84\uc11d \ubd88\uac00)'
Unanalyzable == <<40,48516,49437,32,48520,44032,41>>
\* '[removed]'
MarkRemovedLower == <<91,114,101,109,111,118,101,100,93>>
\* '[Removed]'
MarkRemovedUpper == <<91,82,101,109,111,118,101,100,93>>
\* '(\uc81c\ubaa9 \uc5c6\uc74c)'
MarkNoTitle == <<40,51228,47785,32,50630,51020,41>>

(***************************************************************************)
(* Python string primitives used by api.py.                                *)
(***************************************************************************)

\* None, as passed by test_core_logic.py:144
NoneText == << -1 >>

\* str.isspace(): the code points Python treats as whitespace in strip()/split()
Whitespace ==
  {9, 10, 11, 12, 13, 28, 29, 30, 31, 32, 133, 160, 5760, 8232, 8233, 8239, 8287, 12288}
    \cup (8192..8202)

IsSpace(c) == c \in Whitespace

\* `w in t` on str: w occurs as a contiguous substring of t
Contains(w, t) ==
  \E i \in 0..(Len(t) - Len(w)) : \A j \in 1..Len(w) : t[i + j] = w[j]

\* str.strip()
Strip(t) ==
  LET keep == {i \in 1..Len(t) : ~IsSpace(t[i])}
  IN  IF keep = {} THEN << >>
      ELSE LET lo == CHOOSE i \in keep : \A k \in keep : i <= k
               hi == CHOOSE i \in keep : \A k \in keep : k <= i
           IN  SubSeq(t, lo, hi)

\* str.lower() (the cased characters of the modelled alphabet are ASCII)
Lower(t) == [i \in 1..Len(t) |-> IF t[i] \in 65..90 THEN t[i] + 32 ELSE t[i]]

\* str.upper(), used only to build translator replies that echo the input
Upper(t) == [i \in 1..Len(t) |-> IF t[i] \in 97..122 THEN t[i] - 32 ELSE t[i]]

\* set(t.split()): the distinct maximal runs of non-whitespace characters
SplitSet(t) ==
  LET n == Len(t)
      starts == {i \in 1..n : ~IsSpace(t[i]) /\ (i = 1 \/ IsSpace(t[i - 1]))}
      stop(i) == IF \E j \in i..n : IsSpace(t[j])
                 THEN (CHOOSE j \in i..n : IsSpace(t[j]) /\ \A k \in i..j : IsSpace(t[k]) => k = j) - 1
                 ELSE n
  IN  {SubSeq(t, i, stop(i)) : i \in starts}

\* s[:n]
Prefix(t, n) == SubSeq(t, 1, IF Len(t) < n THEN Len(t) ELSE n)

RECURSIVE Repeat(_, _)
\* s * n
Repeat(s, n) == IF n <= 0 THEN << >> ELSE s \o Repeat(s, n - 1)

RECURSIVE Join(_, _)
\* sep.join(list)
Join(sep, ws) ==
  IF Len(ws) = 0 THEN << >>
  ELSE IF Len(ws) = 1 THEN ws[1]
  ELSE ws[1] \o sep \o Join(sep, Tail(ws))

\* round half to even of x to a multiple of q (round(x, 4), format ".2f")
RoundHalfEven(x, q) ==
  LET lo == x \div q
      r  == x - lo * q
  IN  IF 2 * r < q THEN lo * q
      ELSE IF 2 * r > q THEN (lo + 1) * q
      ELSE IF lo % 2 = 0 THEN lo * q ELSE (lo + 1) * q

(***************************************************************************)
(* Program constants (fixed-point, see the header).                        *)
(***************************************************************************)

\* 1.0 in score units (10^-5): the clamp bounds of line 161
One == 100000
\* 0.25 per lexicon hit, line 160
KoStep == 25000
\* 0.15 per keyword hit, line 217
BoostStep == 15000
\* ko_score * 0.4 + tb_polarity * 0.3 + en_boost * 0.3, line 222 (tenths)
WKo == 4
WTbKo == 3
WBoostKo == 3
\* tb_polarity * 0.6 + en_boost * 0.4, line 228 (tenths)
WTb == 6
WBoost == 4
\* final = ko_score, line 225: a score in 10^-5 units is 10 final units
WOnly == 10
\* 1.0 in final units (10^-6): the clamp bounds of line 231
FinalOne == 1000000
\* 0.03 in final units: the label thresholds of lines 234 and 236
Threshold == 30000
\* round(final, 4): 10^-4 is 100 final units, line 242
RoundUnit == 100
\* ":.2f" in the method string: 10^-2 is 1000 score units, lines 223-229
FmtUnit == 1000
\* display_text[:100], line 242
TruncLen == 100
\* U+AC00 <= ch <= U+D7A3 or U+3131 <= ch <= U+3163, line 151
HangulFirst == 44032
HangulLast == 55203
JamoFirst == 12593
JamoLast == 12643

(***************************************************************************)
(* Pure functions of api.py.                                               *)
(***************************************************************************)

\* faulty variant: the jamo range of line 151 is left out
IsKoreanSyllablesOnly(t) ==
  \E i \in 1..Len(t) : HangulFirst <= t[i] /\ t[i] <= HangulLast

\* _is_korean, lines 149-153
IsKorean(t) ==
  \E i \in 1..Len(t) :
     \/ (HangulFirst <= t[i] /\ t[i] <= HangulLast)
     \/ (JamoFirst <= t[i] /\ t[i] <= JamoLast)

RECURSIVE CountIn(_, _)
\* sum(1 for w in ws if w in t), lines 158-159: one pass over the list
CountIn(ws, t) ==
  IF Len(ws) = 0 THEN 0
  ELSE (IF Contains(Head(ws), t) THEN 1 ELSE 0) + CountIn(Tail(ws), t)

\* max(lo, min(hi, x)), lines 161 and 231
Clamp(lo, hi, x) ==
  LET m == IF hi < x THEN hi ELSE x
  IN  IF lo > m THEN lo ELSE m

\* faulty variant: the lexicon score returned without the clamp of line 161
KoSentimentScoreUnclamped(t) ==
  LET pos == CountIn(KO_POSITIVE, t)
      neg == CountIn(KO_NEGATIVE, t)
  IN  [score |-> (pos - neg) * KoStep, pos |-> pos, neg |-> neg]

\* _ko_sentiment_score, lines 156-161
KoSentimentScore(t) ==
  LET pos == CountIn(KO_POSITIVE, t)
      neg == CountIn(KO_NEGATIVE, t)
      score == (pos - neg) * KoStep
  IN  [score |-> Clamp(-One, One, score), pos |-> pos, neg |-> neg]

\* faulty variant: the markers are matched without regard to case
IsValidTextIgnoreCase(t) ==
  IF t = NoneText \/ t = << >> \/ Strip(t) = << >> THEN FALSE
  ELSE ~ \E m \in {MarkRemovedLower, MarkRemovedUpper, MarkNoTitle} :
           Contains(Lower(m), Lower(t))

\* _is_valid_text, lines 176-179
IsValidText(t) ==
  IF t = NoneText \/ t = << >> \/ Strip(t) = << >> THEN FALSE
  ELSE ~ \E m \in {MarkRemovedLower, MarkRemovedUpper, MarkNoTitle} : Contains(m, t)

\* faulty variant: an echoed input counts as a successful translation
TranslateToEnglishNoEchoCheck(t, o) ==
  IF o.kind = "text" /\ o.value # << >> /\ Strip(o.value) # << >>
  THEN [text |-> Strip(o.value), ok |-> TRUE]
  ELSE [text |-> t, ok |-> FALSE]

\* _translate_to_english, lines 164-173.  o is what
\* GoogleTranslator(...).translate(text) did: raised, returned None, or
\* returned the string o.value.
TranslateToEnglish(t, o) ==
  IF o.kind = "raise" THEN [text |-> t, ok |-> FALSE]
  ELSE IF o.kind = "none" THEN [text |-> t, ok |-> FALSE]
  ELSE IF /\ o.value # << >>
          /\ Strip(o.value) # << >>
          /\ Lower(Strip(o.value)) # Lower(Strip(t))
       THEN [text |-> Strip(o.value), ok |-> TRUE]
       ELSE [text |-> t, ok |-> FALSE]

\* faulty variant: the tokens are matched without lowercasing
EnBoostAnyCase(t) ==
  LET words == SplitSet(t)
  IN  (Cardinality(words \cap EN_POSITIVE) - Cardinality(words \cap EN_NEGATIVE)) * BoostStep

\* words = set(en_text.lower().split()); (en_pos - en_neg) * 0.15, lines 214-217
EnBoost(t) ==
  LET words  == SplitSet(Lower(t))
      en_pos == Cardinality(words \cap EN_POSITIVE)
      en_neg == Cardinality(words \cap EN_NEGATIVE)
  IN  (en_pos - en_neg) * BoostStep

\* faulty variant: translation attempted only when the caller did not declare English
ShouldTranslateByLanguage(ko, lang) == lang # "en"

\* is_ko or language not in ("en",), line 207
ShouldTranslate(ko, lang) == ko \/ lang \notin {"en"}

\* translated or not is_ko, line 211
ShouldClassify(tr, ko) == tr \/ ~ko

\* faulty variant: the Korean lexicon score is left out of the fusion
FuseEnglishOnly(ko, tr, ks, tb, boost) == tb * WTb + boost * WBoost

\* faulty variant: the translated branch weights used when translation failed
FuseAlwaysWeighted(ko, tr, ks, tb, boost) ==
  IF ko THEN ks * WKo + tb * WTbKo + boost * WBoostKo
  ELSE tb * WTb + boost * WBoost

\* the three branches of lines 221-229 (result in final units)
Fuse(ko, tr, ks, tb, boost) ==
  IF ko /\ tr THEN ks * WKo + tb * WTbKo + boost * WBoostKo
  ELSE IF ko /\ ~tr THEN ks * WOnly
  ELSE tb * WTb + boost * WBoost

\* method_used, lines 223, 226, 229: the format and its ":.2f" arguments
MethodUsed(ko, tr, ks, tb, boost) ==
  IF ko /\ tr
  THEN <<"KO+TextBlob+EN", RoundHalfEven(ks, FmtUnit), RoundHalfEven(tb, FmtUnit),
         RoundHalfEven(boost, FmtUnit)>>
  ELSE IF ko /\ ~tr THEN <<"KO only", RoundHalfEven(ks, FmtUnit)>>
  ELSE <<"TextBlob+EN", RoundHalfEven(tb, FmtUnit), RoundHalfEven(boost, FmtUnit)>>

\* faulty variant: no clamp before labelling
ClampFinalOff(f) == f

\* final = max(-1.0, min(1.0, final)), line 231
ClampFinal(f) == Clamp(-FinalOne, FinalOne, f)

\* faulty variant: inclusive thresholds
LabelOfInclusive(f) ==
  IF f >= Threshold THEN "Positive"
  ELSE IF f <= -Threshold THEN "Negative"
  ELSE "Neutral"

\* lines 234-239
LabelOf(f) ==
  IF f > Threshold THEN "Positive"
  ELSE IF f < -Threshold THEN "Negative"
  ELSE "Neutral"

\* faulty variant: the displayed text is not truncated
DisplayTextWhole(tr, en, t) == IF tr THEN en ELSE t

\* display_text = en_text if translated else text; display_text[:100], lines 241-242
DisplayText(tr, en, t) == Prefix(IF tr THEN en ELSE t, TruncLen)

\* the result of line 190
InvalidResult ==
  [label |-> "Neutral", polarity |-> 0, analyzed_text |-> Unanalyzable, method |-> <<"none">>]

(***************************************************************************)
(* Inputs: the texts analysed, the requested languages and the outcomes of *)
(* the external translator and classifier.                                 *)
(***************************************************************************)

\* repetitions in the over-length text ("good " * 200 in test_core_logic.py:252)
LongRepeat == 21

\* "good " * LongRepeat: longer than TruncLen
TxtLong == Repeat(GoodSp, LongRepeat)
\* " ".join(KO_NEGATIVE), test_core_logic.py:107
TxtAllNeg == Join(Space, KO_NEGATIVE)
\* " ".join(KO_POSITIVE), test_core_logic.py:113
TxtAllPos == Join(Space, KO_POSITIVE)

Corpus ==
  {NoneText, TxtEmpty, TxtBlank, TxtRemoved, TxtRemovedInside, TxtNoTitle,
   TxtJoy, TxtSad, TxtRoom, TxtMixed, TxtJamo, TxtAllNeg, TxtAllPos,
   TxtGoodNews, TxtTerrible, TxtMeeting, TxtManyPos, TxtManyNeg, TxtPunct,
   TxtKana, TxtLong}

\* language: "auto" is the default of line 182; "en" and "ko" are query values
Languages == {"auto", "en", "ko"}

\* what GoogleTranslator.translate(t) may return as a string: nothing, blanks,
\* the input echoed (exactly, or padded and in another case), a translation
TranslatorReplies(t) ==
  {TxtEmpty, TxtBlank, t, Space \o Upper(t) \o Space,
   RepJoy, RepSadness, RepRoom, RepCrisis, TxtManyPos, TxtManyNeg, TxtLong}

\* the outcomes of the call at line 167: an exception, None, or a string
TranslatorOutcomes(t) ==
  {[kind |-> "raise", value |-> << >>], [kind |-> "none", value |-> << >>]}
    \cup {[kind |-> "text", value |-> r] : r \in TranslatorReplies(t)}

\* sample values of TextBlob's polarity, which lies in [-1.0, 1.0] (score units)
Polarities == {-One, -50000, -5007, -5000, 0, 5000, 5007, 10000, 50000, One}

\* the outcomes of lines 212-213: an exception, or a polarity
TextBlobOutcomes ==
  {[kind |-> "raise", polarity |-> 0]}
    \cup {[kind |-> "ok", polarity |-> p] : p \in Polarities}

NoReply == [kind |-> "unset", value |-> << >>]
NoResult == [label |-> "unset", polarity |-> 0, analyzed_text |-> << >>, method |-> << >>]

(***************************************************************************)
(* _summarize_text (lines 245-257) and the direct calls of the pure        *)
(* functions, as the unit tests make them.                                 *)
(***************************************************************************)

\* 'Hello \uc548\ub155'
TxtKoEn == <<72,101,108,108,111,32,50504,45397>>
\* '12345'
TxtDigits == <<49,50,51,52,53>>
\* '[REMOVED] news'
TxtRemovedCaps == <<91,82,69,77,79,86,69,68,93,32,110,101,119,115>>
\* 'This is short.'
TxtShort == <<84,104,105,115,32,105,115,32,115,104,111,114,116,46>>
\* 'one two three four five six seven eight nine'
TxtNine == <<111,110,101,32,116,119,111,32,116,104,114,101,101,32,102,111,117,114,32,102,105,118,101,32,115,105,120,32,115,101,118,101,110,32,101,105,103,104,116,32,110,105,110,101>>
\* 'one two three four five\nsix seven\teight nine  ten'
TxtTen == <<111,110,101,32,116,119,111,32,116,104,114,101,101,32,102,111,117,114,32,102,105,118,101,10,115,105,120,32,115,101,118,101,110,9,101,105,103,104,116,32,110,105,110,101,32,32,116,101,110>>
\* '(\ubcf8\ubb38 \uc5c6\uc74c)'
NoContent == <<40,48376,47928,32,50630,51020,41>>
\* '(\uc694\uc57d \uc0dd\uc131 \uc2e4\ud328)'
SummaryFailed == <<40,50836,50557,32,49373,49457,32,49892,54056,41>>
\* '(\uc694\uc57d \uc911 \uc624\ub958: '
SummaryErrorPrefix == <<40,50836,50557,32,51473,32,50724,47448,58,32>>
\* ')'
CloseParen == <<41>>
\* 'boom'
ErrMsg == <<98,111,111,109>>
\* 'First sentence here.'
SentA == <<70,105,114,115,116,32,115,101,110,116,101,110,99,101,32,104,101,114,101,46>>
\* 'Tenth sentence.'
SentB == <<84,101,110,116,104,32,115,101,110,116,101,110,99,101,46>>

\* len(text.split()) < 10, line 246
MinWords == 10

\* len(t.split()): the number of maximal runs of non-whitespace characters
SplitCount(t) ==
  Cardinality({i \in 1..Len(t) : ~IsSpace(t[i]) /\ (i = 1 \/ IsSpace(t[i - 1]))})

\* SUMY_LANG_MAP.get(lang, "english"), lines 66 and 248
SumyLang(lang) ==
  CASE lang = "en" -> "english"
    [] lang = "ko" -> "english"
    [] lang = "ja" -> "japanese"
    [] lang = "de" -> "german"
    [] lang = "fr" -> "french"
    [] lang = "es" -> "spanish"
    [] OTHER -> "english"

\* sentences the summarization library may select
SentencePool == {SentA, SentB}

\* the outcomes of lines 250-254 for sentence_count n: an exception, or at
\* most n selected sentences (possibly none)
LibOutcomes(n) ==
  {[kind |-> "raise", sentences |-> << >>], [kind |-> "ok", sentences |-> << >>]}
    \cup {[kind |-> "ok", sentences |-> <<a>>] : a \in SentencePool}
    \cup (IF n >= 2 THEN {[kind |-> "ok", sentences |-> <<SentA, SentB>>]} ELSE {})

\* faulty variant: the length test counts characters, not words
SummarizeTextByChars(t, n, lang, o) ==
  IF t = NoneText \/ t = << >> \/ Len(t) < MinWords
  THEN [summary |-> IF t = NoneText \/ t = << >> THEN NoContent ELSE t,
        lib |-> 0, locale |-> "none"]
  ELSE [summary |-> SummaryFailed, lib |-> 1, locale |-> SumyLang(lang)]

\* _summarize_text, lines 245-257.  o is what the library did.  lib counts
\* the library invocations, locale is the language handed to it.
SummarizeText(t, n, lang, o) ==
  IF t = NoneText \/ t = << >> \/ SplitCount(t) < MinWords
  THEN [summary |-> IF t = NoneText \/ t = << >> THEN NoContent ELSE t,
        lib |-> 0, locale |-> "none"]
  ELSE IF o.kind = "raise"
  THEN [summary |-> SummaryErrorPrefix \o ErrMsg \o CloseParen,
        lib |-> 1, locale |-> SumyLang(lang)]
  ELSE LET joined == Join(Space, o.sentences)
       IN  [summary |-> IF joined = << >> THEN SummaryFailed ELSE joined,
            lib |-> 1, locale |-> SumyLang(lang)]

\* the texts the functions are called with directly
FnTexts ==
  Corpus \cup {TxtKoEn, TxtDigits, TxtRemovedCaps, TxtShort, TxtNine, TxtTen}

\* sentence_count values: the default of line 245 is 3
SentenceCounts == {1, 3}

\* language codes of SUMY_LANG_MAP and one outside it
SummaryLanguages == {"en", "ko", "ja", "xx"}

\* the last direct call of a pure function: its name, arguments and result
VARIABLE ev

NoEval ==
  [fn |-> "none", arg |-> << >>, lang |-> "", n |-> 0, bool |-> FALSE,
   text |-> << >>, lib |-> 0, locale |-> "none"]

(***************************************************************************)
(* The API surface (lines 282-334).  A request r is handled by one thread; *)
(* rq[r] holds the handler's local state, the response and, as history,    *)
(* the collaborators' responses and the number of calls made for it.       *)
(***************************************************************************)

\* '. '
DotSpace == <<46,32>>
\* '\ub274\uc2a4 \uac00\uc838\uc624\uae30 \uc2e4\ud328: '
FetchFailedPrefix == <<45684,49828,32,44032,51256,50724,44592,32,49892,54056,58,32>>
\* '\uc54c \uc218 \uc5c6\ub294 \uc624\ub958'
UnknownError == <<50508,32,49688,32,50630,45716,32,50724,47448>>
\* '\ud14d\uc2a4\ud2b8\uac00 \ube44\uc5b4 \uc788\uc2b5\ub2c8\ub2e4.'
BlankDetail == <<53581,49828,53944,44032,32,48708,50612,32,51080,49845,45768,45796,46>>
\* 'Read timed out.'
MsgTimeout == <<82,101,97,100,32,116,105,109,101,100,32,111,117,116,46>>
\* '401 Client Error: Unauthorized'
MsgHttp == <<52,48,49,32,67,108,105,101,110,116,32,69,114,114,111,114,58,32,85,110,97,117,116,104,111,114,105,122,101,100>>
\* 'Your API key is invalid.'
MsgProvider == <<89,111,117,114,32,65,80,73,32,107,101,121,32,105,115,32,105,110,118,97,108,105,100,46>>
\* 'Samsung reports record profits'
TitleProfit == <<83,97,109,115,117,110,103,32,114,101,112,111,114,116,115,32,114,101,99,111,114,100,32,112,114,111,102,105,116,115>>
\* 'Market crash fears grow'
TitleCrash == <<77,97,114,107,101,116,32,99,114,97,115,104,32,102,101,97,114,115,32,103,114,111,119>>
\* 'best quarterly results'
DescBest == <<98,101,115,116,32,113,117,97,114,116,101,114,108,121,32,114,101,115,117,108,116,115>>

\* _analyze_sentiment (lines 182-242) as one function of its arguments and
\* of what the translator (otr) and TextBlob (otb) do when called; raised
\* tells that TextBlob's exception left the function, translate and
\* textblob count the calls made
AnalyzeSentiment(t, l, otr, otb) ==
  IF ~IsValidText(t)
  THEN [raised |-> FALSE, result |-> InvalidResult, translate |-> 0, textblob |-> 0]
  ELSE LET ko  == IsKorean(t)
           ks  == IF ko THEN KoSentimentScore(t).score ELSE 0
           att == ShouldTranslate(ko, l)
           tr  == IF att THEN TranslateToEnglish(t, otr) ELSE [text |-> t, ok |-> FALSE]
           cls == ShouldClassify(tr.ok, ko)
       IN  IF cls /\ otb.kind = "raise"
           THEN [raised |-> TRUE, result |-> NoResult,
                 translate |-> IF att THEN 1 ELSE 0, textblob |-> 1]
           ELSE LET tb    == IF cls THEN otb.polarity ELSE 0
                    boost == IF cls THEN EnBoost(tr.text) ELSE 0
                    f     == ClampFinal(Fuse(ko, tr.ok, ks, tb, boost))
                IN  [raised |-> FALSE,
                     result |-> [label |-> LabelOf(f),
                                 polarity |-> RoundHalfEven(f, RoundUnit),
                                 analyzed_text |-> DisplayText(tr.ok, tr.text, t),
                                 method |-> MethodUsed(ko, tr.ok, ks, tb, boost)],
                     translate |-> IF att THEN 1 ELSE 0,
                     textblob |-> IF cls THEN 1 ELSE 0]

\* faulty variant: only the empty string counts as blank
IsBlankEmptyOnly(t) == t = << >>

\* not body.text.strip(), lines 324 and 332
IsBlank(t) == Strip(t) = << >>

\* faulty variant: only a missing or null field gets the default
OrElseNoneOnly(v, d) == IF v = NoneText THEN d ELSE v

\* a.get(k) or default, lines 303-305 (a missing or null field is NoneText)
OrElse(v, d) == IF v = NoneText \/ v = << >> THEN d ELSE v

\* title, desc, content and the analysed text of an article, lines 303-306
ArticleTitle(a) == OrElse(a.title, MarkNoTitle)
ArticleDesc(a) == OrElse(a.description, << >>)
ArticleContent(a) == OrElse(a.content, ArticleDesc(a))
ArticleAnalysis(a) ==
  ArticleTitle(a) \o (IF ArticleDesc(a) # << >> /\ IsValidText(ArticleDesc(a))
                      THEN DotSpace \o ArticleDesc(a) ELSE << >>)

\* counts = {"Positive": 0, "Neutral": 0, "Negative": 0}, line 299
ZeroCounts == [l \in {"Positive", "Neutral", "Negative"} |-> 0]

\* sentiment_summary={}, line 297
EmptySummary == [l \in {} |-> 0]

NoCalls == [fetch |-> 0, analyze |-> 0, translate |-> 0, textblob |-> 0, summarize |-> 0, lib |-> 0]
NoFetch == [kind |-> "unset", msg |-> << >>, articles |-> << >>]
NoBody == [none |-> TRUE]

\* a handler thread with no request
IdleRequest ==
  [st |-> "idle", ep |-> "none", text |-> << >>, lang |-> "", n |-> 0,
   fetched |-> NoFetch, raw |-> << >>, i |-> 0, counts |-> ZeroCounts,
   results |-> << >>, hist |-> << >>, status |-> 0, body |-> NoBody, calls |-> NoCalls]

\* the handler threads
Requests == {1, 2}

VARIABLE rq

(***************************************************************************)
(* One call of _analyze_sentiment (lines 182-242) as a step machine.       *)
(*   pc       position in the function                                     *)
(*   text .. method_used   the function's arguments and local variables    *)
(*   result   the SentimentResult returned                                 *)
(*   invoked  history: the stages and collaborators called so far          *)
(*   reply    history: what the translator did when it was called          *)
(*   tb_input history: the text handed to TextBlob and the keyword match   *)
(***************************************************************************)
VARIABLES pc, text, language, is_ko, ko_score, ko_pos, ko_neg, en_text,
          translated, tb_polarity, en_boost, final, method_used, result,
          invoked, reply, tb_input

\* the variables of the _analyze_sentiment call
avars == <<pc, text, language, is_ko, ko_score, ko_pos, ko_neg, en_text,
           translated, tb_polarity, en_boost, final, method_used, result,
           invoked, reply, tb_input>>

vars == <<avars, ev, rq>>

locals == <<is_ko, ko_score, ko_pos, ko_neg, en_text, translated, tb_polarity,
            en_boost, final, method_used>>

Init ==
  /\ pc = "idle"
  /\ text = << >>
  /\ language = "auto"
  /\ is_ko = FALSE
  /\ ko_score = 0
  /\ ko_pos = 0
  /\ ko_neg = 0
  /\ en_text = << >>
  /\ translated = FALSE
  /\ tb_polarity = 0
  /\ en_boost = 0
  /\ final = 0
  /\ method_used = << >>
  /\ result = NoResult
  /\ invoked = << >>
  /\ reply = NoReply
  /\ tb_input = << >>
  /\ ev = NoEval
  /\ rq = [r \in Requests |-> IdleRequest]

\* _analyze_sentiment(t, l) is entered, line 182
Call(t, l) ==
  /\ pc = "idle"
  /\ pc' = "gate"
  /\ text' = t
  /\ language' = l
  /\ UNCHANGED <<locals, result, invoked, reply, tb_input>>

\* faulty variant: the gate lets every text through
ValidityGateOpen ==
  /\ pc = "gate"
  /\ invoked' = Append(invoked, "is_valid_text")
  /\ pc' = "stage1"
  /\ UNCHANGED <<text, language, locals, result, reply, tb_input>>

\* lines 189-190: the validity gate
ValidityGate ==
  /\ pc = "gate"
  /\ invoked' = Append(invoked, "is_valid_text")
  /\ IF ~IsValidText(text)
     THEN /\ result' = InvalidResult
          /\ pc' = "done"
     ELSE /\ result' = result
          /\ pc' = "stage1"
  /\ UNCHANGED <<text, language, locals, reply, tb_input>>

\* lines 192-199: script detection and the Korean lexicon
Stage1 ==
  /\ pc = "stage1"
  /\ LET ko == IsKorean(text)
         ks == KoSentimentScore(text)
     IN  /\ is_ko' = ko
         /\ ko_score' = IF ko THEN ks.score ELSE 0
         /\ ko_pos' = IF ko THEN ks.pos ELSE 0
         /\ ko_neg' = IF ko THEN ks.neg ELSE 0
         /\ invoked' = invoked \o (IF ko THEN <<"is_korean", "ko_sentiment_score">>
                                         ELSE <<"is_korean">>)
  /\ pc' = "translate"
  /\ UNCHANGED <<text, language, en_text, translated, tb_polarity, en_boost,
                 final, method_used, result, reply, tb_input>>

\* lines 202-209: en_text = text, translated = False, then the translation
Stage2Translate ==
  /\ pc = "translate"
  /\ IF ShouldTranslate(is_ko, language)
     THEN \E o \in TranslatorOutcomes(text) :
            LET r == TranslateToEnglish(text, o)
            IN  /\ en_text' = r.text
                /\ translated' = r.ok
                /\ reply' = o
                /\ invoked' = Append(invoked, "translate")
     ELSE /\ en_text' = text
          /\ translated' = FALSE
          /\ UNCHANGED <<reply, invoked>>
  /\ pc' = "english"
  /\ UNCHANGED <<text, language, is_ko, ko_score, ko_pos, ko_neg, tb_polarity,
                 en_boost, final, method_used, result, tb_input>>

\* lines 211-218: TextBlob and the English keywords; an exception of TextBlob
\* is not caught and leaves the function
Stage2English ==
  /\ pc = "english"
  /\ IF ShouldClassify(translated, is_ko)
     THEN \E o \in TextBlobOutcomes :
            /\ tb_input' = en_text
            /\ IF o.kind = "raise"
               THEN /\ pc' = "raised"
                    /\ invoked' = Append(invoked, "textblob")
                    /\ UNCHANGED <<tb_polarity, en_boost>>
               ELSE /\ pc' = "fuse"
                    /\ tb_polarity' = o.polarity
                    /\ en_boost' = EnBoost(en_text)
                    /\ invoked' = invoked \o <<"textblob", "en_keywords">>
     ELSE /\ pc' = "fuse"
          /\ UNCHANGED <<tb_polarity, en_boost, invoked, tb_input>>
  /\ UNCHANGED <<text, language, is_ko, ko_score, ko_pos, ko_neg, en_text,
                 translated, final, method_used, result, reply>>

\* lines 221-229: the fused score and the method string
Stage3 ==
  /\ pc = "fuse"
  /\ final' = Fuse(is_ko, translated, ko_score, tb_polarity, en_boost)
  /\ method_used' = MethodUsed(is_ko, translated, ko_score, tb_polarity, en_boost)
  /\ pc' = "finish"
  /\ UNCHANGED <<text, language, is_ko, ko_score, ko_pos, ko_neg, en_text,
                 translated, tb_polarity, en_boost, result, invoked, reply, tb_input>>

\* lines 231-242: clamp, label, round, truncate, return
Finish ==
  /\ pc = "finish"
  /\ LET f == ClampFinal(final)
     IN  /\ final' = f
         /\ result' = [label |-> LabelOf(f),
                       polarity |-> RoundHalfEven(f, RoundUnit),
                       analyzed_text |-> DisplayText(translated, en_text, text),
                       method |-> method_used]
  /\ pc' = "done"
  /\ UNCHANGED <<text, language, is_ko, ko_score, ko_pos, ko_neg, en_text,
                 translated, tb_polarity, en_boost, method_used, invoked, reply,
                 tb_input>>

\* the caller takes the result (or the exception) and the frame is gone
Return ==
  /\ pc \in {"done", "raised"}
  /\ pc' = "idle"
  /\ text' = << >>
  /\ language' = "auto"
  /\ is_ko' = FALSE
  /\ ko_score' = 0
  /\ ko_pos' = 0
  /\ ko_neg' = 0
  /\ en_text' = << >>
  /\ translated' = FALSE
  /\ tb_polarity' = 0
  /\ en_boost' = 0
  /\ final' = 0
  /\ method_used' = << >>
  /\ result' = NoResult
  /\ invoked' = << >>
  /\ reply' = NoReply
  /\ tb_input' = << >>

Next ==
  \/ (\E t \in Corpus, l \in Languages : Call(t, l)) /\ UNCHANGED <<ev, rq>>
  \/ ValidityGate /\ UNCHANGED <<ev, rq>>
  \/ Stage1 /\ UNCHANGED <<ev, rq>>
  \/ Stage2Translate /\ UNCHANGED <<ev, rq>>
  \/ Stage2English /\ UNCHANGED <<ev, rq>>
  \/ Stage3 /\ UNCHANGED <<ev, rq>>
  \/ Finish /\ UNCHANGED <<ev, rq>>
  \/ Return /\ UNCHANGED <<ev, rq>>

Spec == Init /\ [][Next]_vars

(***************************************************************************)
(* Direct calls of the pure functions.                                     *)
(***************************************************************************)

\* _is_korean(t) is called
EvalIsKorean(t) ==
  /\ ev' = [NoEval EXCEPT !.fn = "is_korean", !.arg = t, !.bool = IsKorean(t)]
  /\ UNCHANGED <<avars, rq>>

\* _is_valid_text(t) is called
EvalIsValidText(t) ==
  /\ ev' = [NoEval EXCEPT !.fn = "is_valid_text", !.arg = t, !.bool = IsValidText(t)]
  /\ UNCHANGED <<avars, rq>>

\* _summarize_text(t, n, l) is called and the library, if reached, does o
EvalSummarize(t, n, l, o) ==
  /\ LET r == SummarizeText(t, n, l, o)
     IN  ev' = [NoEval EXCEPT !.fn = "summarize", !.arg = t, !.lang = l, !.n = n,
                              !.text = r.summary, !.lib = r.lib, !.locale = r.locale]
  /\ UNCHANGED <<avars, rq>>

NextFn ==
  \/ \E t \in FnTexts \ {NoneText} : EvalIsKorean(t)
  \/ \E t \in FnTexts : EvalIsValidText(t)
  \/ \E t \in FnTexts, n \in SentenceCounts, l \in SummaryLanguages :
       \E o \in LibOutcomes(n) : EvalSummarize(t, n, l, o)

SpecFn == Init /\ [][NextFn]_vars

(***************************************************************************)
(* The request handlers.                                                   *)
(***************************************************************************)

\* most articles in one fetched list
MaxArticles == 2

\* summary_sentences when the query does not give it, line 288
DefaultSentences == 3

\* request texts of POST /sentiment and POST /summarize
ApiTexts == {TxtEmpty, TxtBlank, TxtRemoved, TxtJoy, TxtGoodNews, TxtShort, TxtTen}

\* raw articles of the provider; a null or missing field is NoneText
ArtProfit == [title |-> TitleProfit, description |-> DescBest, content |-> TxtTen]
ArtCrash == [title |-> TitleCrash, description |-> TxtRemoved, content |-> TxtShort]
ArtNoTitle == [title |-> NoneText, description |-> TxtGoodNews, content |-> NoneText]
ArtKorean == [title |-> TxtJoy, description |-> NoneText, content |-> NoneText]
ArtEmptyTitle == [title |-> << >>, description |-> TxtJoy, content |-> << >>]
ArticleSet == {ArtProfit, ArtCrash, ArtNoTitle, ArtKorean, ArtEmptyTitle}

\* the article lists of at most k articles
Feeds(k) == UNION {[1..m -> ArticleSet] : m \in 0..k}

\* what _fetch_news (lines 260-268) may do: requests.get raises, the HTTP
\* status is an error, the provider's status is not "ok" (with or without a
\* message), or the list of articles is returned
FetchFailures ==
  {[kind |-> "network", msg |-> MsgTimeout, articles |-> << >>],
   [kind |-> "http", msg |-> MsgHttp, articles |-> << >>],
   [kind |-> "status", msg |-> MsgProvider, articles |-> << >>],
   [kind |-> "status", msg |-> NoneText, articles |-> << >>]}

FetchOutcomes(feeds) ==
  FetchFailures \cup {[kind |-> "ok", msg |-> << >>, articles |-> f] : f \in feeds}

\* str(e) of the exception _fetch_news raises, lines 263-267
FetchError(o) == IF o.kind = "status" THEN OrElse(o.msg, UnknownError) ELSE o.msg

\* collaborator outcomes sampled in the handlers
ApiTranslatorOutcomes ==
  {[kind |-> "raise", value |-> << >>], [kind |-> "text", value |-> RepJoy]}
ApiTextBlobOutcomes ==
  {[kind |-> "raise", polarity |-> 0], [kind |-> "ok", polarity |-> 50000],
   [kind |-> "ok", polarity |-> 0], [kind |-> "ok", polarity |-> -50000]}
ApiLibOutcomes ==
  {[kind |-> "raise", sentences |-> << >>], [kind |-> "ok", sentences |-> <<SentA>>]}

NoPolarity == [kind |-> "unset", polarity |-> 0]
NoSentences == [kind |-> "unset", sentences |-> << >>]

\* the collaborator responses one article or one request consumed: tr, tb and
\* lib are the numbers of calls made (0 or 1)
Consumed(tr, tb, lib, otr, otb, o) ==
  [otr |-> IF tr = 1 THEN otr ELSE NoReply,
   otb |-> IF tb = 1 THEN otb ELSE NoPolarity,
   osum |-> IF lib = 1 THEN o ELSE NoSentences]

\* POST /sentiment, lines 321-326
PostSentiment(r, t, l, otr, otb) ==
  /\ rq[r].st = "idle"
  /\ IF IsBlank(t)
     THEN rq' = [rq EXCEPT ![r] =
                   [IdleRequest EXCEPT !.st = "done", !.ep = "sentiment", !.text = t,
                                       !.lang = l, !.status = 400,
                                       !.body = [detail |-> BlankDetail]]]
     ELSE LET a == AnalyzeSentiment(t, l, otr, otb)
          IN  rq' = [rq EXCEPT ![r] =
                       [IdleRequest EXCEPT
                          !.st = "done", !.ep = "sentiment", !.text = t, !.lang = l,
                          !.status = IF a.raised THEN 500 ELSE 200,
                          !.body = IF a.raised THEN [error |-> "textblob"] ELSE a.result,
                          !.hist = <<Consumed(a.translate, a.textblob, 0, otr, otb, NoSentences)>>,
                          !.calls = [NoCalls EXCEPT !.analyze = 1,
                                                    !.translate = a.translate,
                                                    !.textblob = a.textblob]]]
  /\ UNCHANGED <<avars, ev>>

\* POST /summarize, lines 329-334
PostSummarize(r, t, n, l, o) ==
  /\ rq[r].st = "idle"
  /\ IF IsBlank(t)
     THEN rq' = [rq EXCEPT ![r] =
                   [IdleRequest EXCEPT !.st = "done", !.ep = "summarize", !.text = t,
                                       !.lang = l, !.n = n, !.status = 400,
                                       !.body = [detail |-> BlankDetail]]]
     ELSE LET sm == SummarizeText(t, n, l, o)
          IN  rq' = [rq EXCEPT ![r] =
                       [IdleRequest EXCEPT
                          !.st = "done", !.ep = "summarize", !.text = t, !.lang = l,
                          !.n = n, !.status = 200, !.body = [summary |-> sm.summary],
                          !.hist = <<Consumed(0, 0, sm.lib, NoReply, NoPolarity, o)>>,
                          !.calls = [NoCalls EXCEPT !.summarize = 1, !.lib = sm.lib]]]
  /\ UNCHANGED <<avars, ev>>

\* faulty variant: a failed fetch is taken for an empty list of articles
NewsFetchSwallow(r, l, n, o) ==
  /\ rq[r].st = "idle"
  /\ rq' = [rq EXCEPT ![r] =
              [IdleRequest EXCEPT
                 !.ep = "news", !.lang = l, !.n = n, !.fetched = o,
                 !.calls = [NoCalls EXCEPT !.fetch = 1],
                 !.st = IF o.articles = << >> THEN "done" ELSE "loop",
                 !.status = IF o.articles = << >> THEN 200 ELSE 0,
                 !.body = IF o.articles = << >>
                          THEN [total |-> 0, sentiment_summary |-> EmptySummary,
                                articles |-> << >>]
                          ELSE NoBody,
                 !.raw = o.articles, !.i = 1]]
  /\ UNCHANGED <<avars, ev>>

\* GET /news, lines 291-300: the fetch, the 502 on its failure, the empty
\* response, or the start of the loop over the articles
NewsFetch(r, l, n, o) ==
  /\ rq[r].st = "idle"
  /\ LET base == [IdleRequest EXCEPT !.ep = "news", !.lang = l, !.n = n, !.fetched = o,
                                     !.calls = [NoCalls EXCEPT !.fetch = 1]]
     IN  rq' = [rq EXCEPT ![r] =
                  IF o.kind # "ok"
                  THEN [base EXCEPT !.st = "done", !.status = 502,
                                    !.body = [detail |-> FetchFailedPrefix \o FetchError(o)]]
                  ELSE IF o.articles = << >>
                  THEN [base EXCEPT !.st = "done", !.status = 200,
                                    !.body = [total |-> 0,
                                              sentiment_summary |-> EmptySummary,
                                              articles |-> << >>]]
                  ELSE [base EXCEPT !.st = "loop", !.raw = o.articles, !.i = 1,
                                    !.counts = ZeroCounts, !.results = << >>]]
  /\ UNCHANGED <<avars, ev>>

\* the ArticleResult of lines 311-316 (the fields the model keeps)
ArticleResult(a, sent, sm) ==
  [title |-> ArticleTitle(a), description |-> ArticleDesc(a),
   content |-> ArticleContent(a), sentiment |-> sent, summary |-> sm]

\* faulty variant: counts is one dictionary shared by all requests
NewsArticleSharedCounts(r, otr, otb, o) ==
  /\ rq[r].st = "loop"
  /\ rq[r].i <= Len(rq[r].raw)
  /\ LET q    == rq[r]
         a    == q.raw[q.i]
         an   == AnalyzeSentiment(ArticleAnalysis(a), q.lang, otr, otb)
         sm   == SummarizeText(ArticleContent(a), q.n, q.lang, o)
         mine == IF an.raised
                 THEN [q EXCEPT !.st = "done", !.status = 500,
                                !.body = [error |-> "textblob"]]
                 ELSE [q EXCEPT !.i = q.i + 1,
                                !.results = Append(q.results, ArticleResult(a, an.result, sm.summary))]
     IN  rq' = [x \in Requests |->
                  LET y == IF x = r THEN mine ELSE rq[x]
                  IN  IF ~an.raised /\ y.st = "loop"
                      THEN [y EXCEPT !.counts[an.result.label] = @ + 1]
                      ELSE y]
  /\ UNCHANGED <<avars, ev>>

\* GET /news, lines 302-316: one pass of the loop, for the article raw[i]
NewsArticle(r, otr, otb, o) ==
  /\ rq[r].st = "loop"
  /\ rq[r].i <= Len(rq[r].raw)
  /\ LET q  == rq[r]
         a  == q.raw[q.i]
         an == AnalyzeSentiment(ArticleAnalysis(a), q.lang, otr, otb)
         sm == SummarizeText(ArticleContent(a), q.n, q.lang, o)
         cl == [q.calls EXCEPT !.analyze = @ + 1, !.translate = @ + an.translate,
                               !.textblob = @ + an.textblob]
     IN  rq' = [rq EXCEPT ![r] =
                  IF an.raised
                  THEN [q EXCEPT !.st = "done", !.status = 500,
                                 !.body = [error |-> "textblob"], !.calls = cl,
                                 !.hist = Append(q.hist, Consumed(an.translate, an.textblob, 0,
                                                                 otr, otb, o))]
                  ELSE [q EXCEPT
                          !.i = q.i + 1,
                          !.counts[an.result.label] = @ + 1,
                          !.results = Append(q.results, ArticleResult(a, an.result, sm.summary)),
                          !.hist = Append(q.hist, Consumed(an.translate, an.textblob, sm.lib,
                                                          otr, otb, o)),
                          !.calls = [cl EXCEPT !.summarize = @ + 1, !.lib = @ + sm.lib]]]
  /\ UNCHANGED <<avars, ev>>

\* GET /news, line 318: the response after the loop
NewsReturn(r) ==
  /\ rq[r].st = "loop"
  /\ rq[r].i > Len(rq[r].raw)
  /\ rq' = [rq EXCEPT ![r] =
              [rq[r] EXCEPT !.st = "done", !.status = 200,
                            !.body = [total |-> Len(rq[r].results),
                                      sentiment_summary |-> rq[r].counts,
                                      articles |-> rq[r].results]]]
  /\ UNCHANGED <<avars, ev>>

\* the response is sent and the thread is free again
Complete(r) ==
  /\ rq[r].st = "done"
  /\ rq' = [rq EXCEPT ![r] = IdleRequest]
  /\ UNCHANGED <<avars, ev>>

\* one request at a time
NextApi ==
  \/ \E t \in ApiTexts, l \in Languages :
       \E otr \in ApiTranslatorOutcomes, otb \in ApiTextBlobOutcomes :
         PostSentiment(1, t, l, otr, otb)
  \/ \E t \in ApiTexts, n \in SentenceCounts, l \in SummaryLanguages :
       \E o \in ApiLibOutcomes : PostSummarize(1, t, n, l, o)
  \/ \E l \in Languages :
       \E o \in FetchOutcomes(Feeds(MaxArticles)) : NewsFetch(1, l, DefaultSentences, o)
  \/ \E otr \in ApiTranslatorOutcomes, otb \in ApiTextBlobOutcomes :
       \E o \in ApiLibOutcomes : NewsArticle(1, otr, otb, o)
  \/ NewsReturn(1)
  \/ Complete(1)

SpecApi == Init /\ [][NextApi]_vars

\* inputs of the concurrent runs
ConcTexts == {TxtBlank, TxtGoodNews}
ConcFeeds == {<<ArtCrash>>, <<ArtProfit, ArtCrash>>}
ConcTextBlobOutcomes ==
  {[kind |-> "raise", polarity |-> 0], [kind |-> "ok", polarity |-> 50000],
   [kind |-> "ok", polarity |-> -50000]}

\* one call of _analyze_sentiment and the requests of Requests, their steps
\* interleaved in every order
NextConc ==
  \/ (\E t \in ConcTexts : Call(t, "en")) /\ UNCHANGED <<ev, rq>>
  \/ ValidityGate /\ UNCHANGED <<ev, rq>>
  \/ Stage1 /\ UNCHANGED <<ev, rq>>
  \/ Stage2Translate /\ UNCHANGED <<ev, rq>>
  \/ Stage2English /\ UNCHANGED <<ev, rq>>
  \/ Stage3 /\ UNCHANGED <<ev, rq>>
  \/ Finish /\ UNCHANGED <<ev, rq>>
  \/ Return /\ UNCHANGED <<ev, rq>>
  \/ \E r \in Requests, t \in ConcTexts, otb \in ConcTextBlobOutcomes :
       PostSentiment(r, t, "en", NoReply, otb)
  \/ \E r \in Requests, t \in ConcTexts :
       PostSummarize(r, t, DefaultSentences, "en", NoSentences)
  \/ \E r \in Requests, o \in FetchOutcomes(ConcFeeds) : NewsFetch(r, "en", DefaultSentences, o)
  \/ \E r \in Requests, otb \in ConcTextBlobOutcomes, o \in ApiLibOutcomes :
       NewsArticle(r, NoReply, otb, o)
  \/ \E r \in Requests : NewsReturn(r)
  \/ \E r \in Requests : Complete(r)

SpecConc == Init /\ [][NextConc]_vars

(***************************************************************************)
(* Properties.                                                             *)
(***************************************************************************)

TypeOK ==
  /\ pc \in {"idle", "gate", "stage1", "translate", "english", "fuse", "finish", "done", "raised"}
  /\ text \in Corpus \cup {<< >>}
  /\ language \in Languages
  /\ is_ko \in BOOLEAN
  /\ translated \in BOOLEAN
  /\ ko_score \in -One..One
  /\ tb_polarity \in Polarities

\* number of times the stage s was invoked in the current call
Times(s) == Cardinality({i \in DOMAIN invoked : invoked[i] = s})

\* the stages invoked so far in the current call
Invoked == {invoked[i] : i \in DOMAIN invoked}

\* the string has a character that is not whitespace
HasNonSpace(v) == \E i \in 1..Len(v) : ~IsSpace(v[i])

\* C1: whenever _analyze_sentiment has returned a result, whatever the text,
\* the language and the collaborators' outcomes, the returned polarity lies
\* in [-1.0, 1.0]; this covers the three fusion branches and the invalid-text
\* result.
C1_PolarityInRange ==
  pc = "done" => (-FinalOne <= result.polarity /\ result.polarity <= FinalOne)

\* C1 witness: a returned result whose fused score exceeded 1.0 before the clamp
C1_Witness ==
  /\ pc = "done"
  /\ Fuse(is_ko, translated, ko_score, tb_polarity, en_boost) > FinalOne
  /\ result.polarity = FinalOne
\* C2: for valid text the score before the clamp is chosen by exactly one of
\* three cases over (is_ko, translated): Korean and translated gives
\* ko_score*0.4 + tb_polarity*0.3 + en_boost*0.3; Korean and not translated
\* gives ko_score alone; not Korean gives tb_polarity*0.6 + en_boost*0.4,
\* whether or not translation succeeded.
C2_FusionBranches ==
  pc = "finish" =>
    /\ (is_ko /\ translated) =>
         final = 4 * ko_score + 3 * tb_polarity + 3 * en_boost
    /\ (is_ko /\ ~translated) => final = 10 * ko_score
    /\ ~is_ko => final = 6 * tb_polarity + 4 * en_boost
    /\ Cardinality({b \in {is_ko /\ translated, is_ko /\ ~translated, ~is_ko} : b}) = 1

\* C2 witness: Korean text whose translation failed, scored by the lexicon alone
C2_Witness ==
  /\ pc = "finish"
  /\ is_ko /\ ~translated
  /\ "translate" \in Invoked
  /\ ko_score # 0
  /\ final = 10 * ko_score

\* C3: for valid text the returned label is determined by the clamped final
\* score alone: Positive iff final > 0.03, Negative iff final < -0.03, Neutral
\* otherwise, so final equal to 0.03 or -0.03 is Neutral.
C3_LabelByThreshold ==
  (pc = "done" /\ IsValidText(text)) =>
    /\ result.label = "Positive" <=> final > 30000
    /\ result.label = "Negative" <=> final < -30000
    /\ result.label = "Neutral" <=> (-30000 <= final /\ final <= 30000)
    /\ result.label \in {"Positive", "Negative", "Neutral"}

\* C3 witness: a final score of exactly 0.03 labelled Neutral
C3_Witness ==
  /\ pc = "done"
  /\ IsValidText(text)
  /\ final = Threshold
  /\ result.label = "Neutral"

\* C4: whenever the text is invalid, _analyze_sentiment returns at once the
\* fixed result (Neutral, 0.0, the placeholder, method "none") for every
\* language, and no further stage runs: script detection, Korean scoring,
\* translation, the classifier and the keyword match are never invoked.
C4_InvalidReturnsAtOnce ==
  (pc # "idle" /\ ~IsValidText(text)) =>
    /\ pc \in {"gate", "done"}
    /\ \A i \in DOMAIN invoked : invoked[i] = "is_valid_text"
    /\ reply = NoReply
    /\ pc = "done" =>
         /\ result.label = "Neutral"
         /\ result.polarity = 0
         /\ result.analyzed_text = Unanalyzable
         /\ result.method = <<"none">>

\* C4 witness: a text invalid only because of a marker inside it, with a
\* requested language other than the default, has returned
C4_Witness ==
  /\ pc = "done"
  /\ text = TxtRemovedInside
  /\ language = "ko"
  /\ result = InvalidResult
\* C5: no stage of _analyze_sentiment raises past its boundary: for every
\* valid text, if the translation call or the classifier call fails, the
\* analysis still completes and returns a result, the failed signal degrading
\* to its default (translated = False, polarity 0.0), and no failure reaches
\* the caller.
C5_NoStageRaises ==
  /\ pc # "raised"
  /\ (pc = "done" /\ IsValidText(text)) => result.label \in {"Positive", "Negative", "Neutral"}
  /\ (pc \in {"english", "fuse", "finish", "done"} /\ reply.kind \in {"raise", "none"})
       => ~translated

\* C6: in _analyze_sentiment on valid text, translation is attempted exactly
\* when the text contains Korean script or the requested language is not
\* "en" (so also for Korean text with language "en"), and at most once per
\* analysis.
C6_TranslationAttempts ==
  /\ Times("translate") <= 1
  /\ (pc \in {"english", "fuse", "finish", "done", "raised"} /\ IsValidText(text)) =>
       (Times("translate") = 1 <=> (IsKorean(text) \/ language # "en"))
  /\ pc \in {"gate", "stage1", "translate"} => Times("translate") = 0

\* C6 witness: Korean-script text analysed with language "en" was translated
C6_Witness ==
  /\ pc = "done"
  /\ IsKorean(text)
  /\ language = "en"
  /\ Times("translate") = 1
  /\ reply # NoReply

\* C7: in _analyze_sentiment on valid text, the classifier and the keyword
\* match are both run exactly when translation succeeded or the text has no
\* Korean script, never when the text is Korean and translation failed, and
\* they are run on the translated text when translation succeeded and on the
\* original text otherwise.
C7_EnglishStage ==
  (pc \in {"fuse", "finish", "done", "raised"} /\ IsValidText(text)) =>
    /\ "textblob" \in Invoked <=> (translated \/ ~IsKorean(text))
    /\ "en_keywords" \in Invoked <=> (translated \/ ~IsKorean(text))
    /\ (IsKorean(text) /\ ~translated) => Invoked \cap {"textblob", "en_keywords"} = {}
    /\ "textblob" \in Invoked =>
         tb_input = (IF translated THEN Strip(reply.value) ELSE text)

\* C8: for valid text analyzed_text is the first 100 characters of the
\* translated text if translation succeeded and of the original text
\* otherwise, so it is never longer than 100; for invalid text it is the fixed
\* placeholder, also at most 100 characters.
C8_AnalyzedText ==
  pc = "done" =>
    /\ Len(result.analyzed_text) <= 100
    /\ IF IsValidText(text)
       THEN LET shown == IF translated THEN Strip(reply.value) ELSE text
            IN  /\ Len(result.analyzed_text) = (IF Len(shown) > 100 THEN 100 ELSE Len(shown))
                /\ \A i \in 1..Len(result.analyzed_text) : result.analyzed_text[i] = shown[i]
       ELSE result.analyzed_text = Unanalyzable

\* C8 witness: a translation longer than 100 characters was cut to 100
C8_Witness ==
  /\ pc = "done"
  /\ translated
  /\ Len(en_text) > TruncLen
  /\ Len(result.analyzed_text) = TruncLen

\* C9: _translate_to_english never propagates an exception and reports
\* success only when the translator returned normally a result that is not
\* empty, not all whitespace and differs from the input after trimming and
\* folding case; in every other case (exception, empty result, echoed input)
\* it returns the original text unchanged with success false.
C9_TranslateOutcome ==
  "translate" \in Invoked =>
    /\ pc # "translate"
    /\ translated <=>
         /\ reply.kind = "text"
         /\ HasNonSpace(reply.value)
         /\ Lower(Strip(reply.value)) # Lower(Strip(text))
    /\ translated => en_text = Strip(reply.value)
    /\ ~translated => en_text = text

\* C9 witness: the translator echoed the input in another case and padded,
\* which counts as a failure
C9_Witness ==
  /\ "translate" \in Invoked
  /\ reply.kind = "text"
  /\ reply.value = Space \o Upper(text) \o Space
  /\ Upper(text) # text
  /\ ~translated
  /\ en_text = text

\* C10: _ko_sentiment_score returns the number of KO_POSITIVE entries that
\* occur as substrings of the text (each entry once, overlapping entries
\* independently), the same for KO_NEGATIVE, and (pos - neg) * 0.25 clamped
\* to [-1, 1], so the score stays in [-1, 1] even when every entry of one
\* list matches.
C10_KoScore ==
  pc \in {"translate", "english", "fuse", "finish", "done", "raised"} =>
    LET pos == Cardinality({i \in DOMAIN KO_POSITIVE : Contains(KO_POSITIVE[i], text)})
        neg == Cardinality({i \in DOMAIN KO_NEGATIVE : Contains(KO_NEGATIVE[i], text)})
        raw == (pos - neg) * 25000
    IN  /\ ko_pos = pos
        /\ ko_neg = neg
        /\ ko_score = (IF raw > 100000 THEN 100000 ELSE IF raw < -100000 THEN -100000 ELSE raw)
        /\ -100000 <= ko_score /\ ko_score <= 100000

\* C10 witness: every entry of the negative lexicon matched and the score is -1.0
C10_Witness ==
  /\ "ko_sentiment_score" \in Invoked
  /\ ko_neg = Len(KO_NEGATIVE)
  /\ ko_pos = 0
  /\ ko_score = -One
\* the word w is one of the whitespace-separated tokens of t
IsToken(w, t) ==
  \E i \in 1..Len(t) :
     /\ i + Len(w) - 1 <= Len(t)
     /\ \A j \in 1..Len(w) : t[i + j - 1] = w[j]
     /\ (i = 1 \/ IsSpace(t[i - 1]))
     /\ (i + Len(w) - 1 = Len(t) \/ IsSpace(t[i + Len(w)]))

\* C13: the English keyword boost is computed over the set of distinct
\* lowercased whitespace-separated tokens of the text: (distinct tokens in
\* EN_POSITIVE - distinct tokens in EN_NEGATIVE) * 0.15, so a repeated keyword
\* counts once, a token with attached punctuation does not match, and the
\* boost is not clamped before fusion.
C13_KeywordBoost ==
  (pc \in {"fuse", "finish", "done"} /\ "en_keywords" \in Invoked) =>
    LET low == Lower(tb_input)
        pos == Cardinality({w \in EN_POSITIVE : IsToken(w, low)})
        neg == Cardinality({w \in EN_NEGATIVE : IsToken(w, low)})
    IN  en_boost = (pos - neg) * 15000

\* C13 witness: a text with keywords repeated, in several cases and with
\* punctuation attached; eight distinct keywords give a boost of 1.2 > 1.0
C13_Witness ==
  /\ pc = "fuse"
  /\ tb_input = TxtPunct
  /\ en_boost = 8 * BoostStep
  /\ en_boost > One

\* C14: with translation succeeding on Korean-script text, the label follows
\* the agreed sign of the signals: more positive than negative lexicon
\* matches with classifier polarity and keyword boost both >= 0 gives Positive
\* with polarity > 0; more negative matches with both English signals <= 0
\* gives Negative with polarity < 0; all three signals zero gives Neutral.
C14_AgreedSign ==
  (pc = "done" /\ IsValidText(text) /\ is_ko /\ translated) =>
    /\ (ko_pos > ko_neg /\ tb_polarity >= 0 /\ en_boost >= 0) =>
         (result.label = "Positive" /\ result.polarity > 0)
    /\ (ko_neg > ko_pos /\ tb_polarity <= 0 /\ en_boost <= 0) =>
         (result.label = "Negative" /\ result.polarity < 0)
    /\ (ko_score = 0 /\ tb_polarity = 0 /\ en_boost = 0) => result.label = "Neutral"

\* C14 witness: one negative lexicon match, translation succeeded, both
\* English signals at zero
C14_Witness ==
  /\ pc = "done"
  /\ is_ko /\ translated
  /\ ko_neg = ko_pos + 1
  /\ tb_polarity = 0 /\ en_boost = 0
  /\ result.label = "Negative"

\* C20: the label and the returned polarity always agree under the
\* documented thresholds: Positive iff the returned (4-decimal rounded)
\* polarity is > 0.03, Negative iff it is < -0.03, Neutral otherwise.
C20_LabelAgreesWithPolarity ==
  pc = "done" =>
    /\ result.label = "Positive" <=> result.polarity > 30000
    /\ result.label = "Negative" <=> result.polarity < -30000
    /\ result.label = "Neutral" <=> (-30000 <= result.polarity /\ result.polarity <= 30000)
\* the word m occurs in t starting at position i
OccursAt(m, t, i) == i + Len(m) - 1 <= Len(t) /\ SubSeq(t, i, i + Len(m) - 1) = m

\* C11: _is_valid_text(text) is false exactly when text is None, empty or all
\* whitespace, or contains as a case-sensitive substring one of the markers
\* "[removed]", "[Removed]", the no-title marker, anywhere in the text; it is
\* true for every other text.
C11_IsValid ==
  ev.fn = "is_valid_text" =>
    (ev.bool = FALSE <=>
       \/ ev.arg = NoneText
       \/ \A i \in 1..Len(ev.arg) : IsSpace(ev.arg[i])
       \/ \E i \in 1..Len(ev.arg) :
            \/ OccursAt(MarkRemovedLower, ev.arg, i)
            \/ OccursAt(MarkRemovedUpper, ev.arg, i)
            \/ OccursAt(MarkNoTitle, ev.arg, i))

\* C11 witness: a text holding the removed marker in capitals is valid
C11_Witness ==
  /\ ev.fn = "is_valid_text"
  /\ ev.arg = TxtRemovedCaps
  /\ Contains(Upper(MarkRemovedLower), ev.arg)
  /\ ev.bool = TRUE

\* C12: _is_korean(text) is true if and only if at least one character of
\* text has a code point in [U+AC00, U+D7A3] or in [U+3131, U+3163]; it is
\* false for the empty string and for text of Latin letters, digits,
\* punctuation or kana only, and true for mixed text with one such character.
C12_IsKorean ==
  ev.fn = "is_korean" =>
    /\ ev.bool <=> \E i \in 1..Len(ev.arg) :
                     ev.arg[i] \in (44032..55203) \cup (12593..12643)
    /\ ev.arg \in {TxtEmpty, TxtGoodNews, TxtDigits, TxtRemoved, TxtKana} => ~ev.bool
    /\ ev.arg \in {TxtKoEn, TxtJamo, TxtRemovedInside} => ev.bool

\* C12 witness: text of compatibility jamo and Latin letters is Korean
C12_Witness ==
  /\ ev.fn = "is_korean"
  /\ ev.arg = TxtJamo
  /\ ev.bool = TRUE

\* C15: _summarize_text returns its input unchanged whenever the text is
\* non-empty and has fewer than 10 whitespace-separated tokens, and the fixed
\* no-content placeholder when the text is empty or None; in both cases the
\* summarization library is never invoked.
C15_ShortTextUnchanged ==
  ev.fn = "summarize" =>
    /\ (ev.arg # NoneText /\ ev.arg # << >> /\ SplitCount(ev.arg) < 10) =>
         (ev.text = ev.arg /\ ev.lib = 0)
    /\ (ev.arg = NoneText \/ ev.arg = << >>) => (ev.text = NoContent /\ ev.lib = 0)

\* C15 witness: a text of nine tokens, longer than ten characters, came back
\* unchanged without the library being called
C15_Witness ==
  /\ ev.fn = "summarize"
  /\ ev.arg = TxtNine
  /\ SplitCount(ev.arg) = MinWords - 1
  /\ ev.text = TxtNine
  /\ ev.lib = 0

\* the labels of a response's results, and the histogram they give
Labels == {"Positive", "Neutral", "Negative"}
CountOf(summary, l) == IF l \in DOMAIN summary THEN summary[l] ELSE 0
LabelCount(results, l) ==
  Cardinality({i \in DOMAIN results : results[i].sentiment.label = l})

\* C16: a POST /sentiment or POST /summarize request whose text is empty or
\* all whitespace is answered with the client error 400, and nothing was
\* called for it: no analysis, no translation, no classifier, no summarizer.
C16_BlankRejected ==
  \A r \in Requests :
    (rq[r].st = "done" /\ rq[r].ep \in {"sentiment", "summarize"}
       /\ ~HasNonSpace(rq[r].text))
      => (rq[r].status = 400 /\ rq[r].calls = NoCalls)

C16_Witness ==
  /\ rq[1].st = "done"
  /\ rq[1].ep = "summarize"
  /\ rq[1].text = TxtBlank
  /\ rq[1].status = 400

\* C17: a GET /news request fetches exactly once; when the fetch fails
\* (network error, HTTP error status, provider status other than "ok") the
\* request ends at once with the gateway error 502 whose detail carries the
\* upstream message, and no analysis and no summarization ran for it.
C17_FetchFailure ==
  \A r \in Requests :
    rq[r].ep = "news" =>
      /\ rq[r].calls.fetch = 1
      /\ rq[r].fetched.kind # "ok" =>
           /\ rq[r].st = "done"
           /\ rq[r].status = 502
           /\ rq[r].body =
                [detail |-> FetchFailedPrefix \o
                   (IF rq[r].fetched.kind = "status" /\ rq[r].fetched.msg = NoneText
                    THEN UnknownError ELSE rq[r].fetched.msg)]
           /\ rq[r].calls = [NoCalls EXCEPT !.fetch = 1]

C17_Witness ==
  /\ rq[1].ep = "news"
  /\ rq[1].fetched.kind = "http"
  /\ rq[1].status = 502
  /\ rq[1].body.detail = FetchFailedPrefix \o MsgHttp

\* C18: a GET /news request whose fetch returned a list of articles (the
\* empty list included) ends with status 200, total = the number of fetched
\* articles, one result per article in the order fetched, and a histogram
\* that counts each result once under its own label and sums to total.
C18_NewsSucceeds ==
  \A r \in Requests :
    (rq[r].st = "done" /\ rq[r].ep = "news" /\ rq[r].fetched.kind = "ok") =>
      /\ rq[r].status = 200
      /\ rq[r].body.total = Len(rq[r].fetched.articles)
      /\ Len(rq[r].body.articles) = rq[r].body.total
      /\ \A i \in DOMAIN rq[r].body.articles :
           rq[r].body.articles[i].title = ArticleTitle(rq[r].fetched.articles[i])
      /\ \A l \in Labels :
           CountOf(rq[r].body.sentiment_summary, l) = LabelCount(rq[r].body.articles, l)
      /\ CountOf(rq[r].body.sentiment_summary, "Positive")
           + CountOf(rq[r].body.sentiment_summary, "Neutral")
           + CountOf(rq[r].body.sentiment_summary, "Negative") = rq[r].body.total
      /\ rq[r].fetched.articles = << >> =>
           rq[r].body = [total |-> 0, sentiment_summary |-> EmptySummary,
                         articles |-> << >>]

\* the loop of GET /news run alone over the first k articles, with the
\* collaborator responses h[1..k]
RECURSIVE AloneLoop(_, _, _, _, _)
AloneLoop(raw, l, n, h, k) ==
  IF k = 0
  THEN [raised |-> FALSE, counts |-> ZeroCounts, results |-> << >>]
  ELSE LET p  == AloneLoop(raw, l, n, h, k - 1)
           an == AnalyzeSentiment(ArticleAnalysis(raw[k]), l, h[k].otr, h[k].otb)
           sm == SummarizeText(ArticleContent(raw[k]), n, l, h[k].osum)
       IN  IF p.raised \/ an.raised
           THEN [p EXCEPT !.raised = TRUE]
           ELSE [p EXCEPT !.counts[an.result.label] = @ + 1,
                          !.results = Append(@, ArticleResult(raw[k], an.result, sm.summary))]

\* the response (status and body) of the request q run alone
Alone(q) ==
  CASE q.ep = "sentiment" ->
         IF ~HasNonSpace(q.text)
         THEN [status |-> 400, body |-> [detail |-> BlankDetail]]
         ELSE LET a == AnalyzeSentiment(q.text, q.lang, q.hist[1].otr, q.hist[1].otb)
              IN  IF a.raised THEN [status |-> 500, body |-> [error |-> "textblob"]]
                  ELSE [status |-> 200, body |-> a.result]
    [] q.ep = "summarize" ->
         IF ~HasNonSpace(q.text)
         THEN [status |-> 400, body |-> [detail |-> BlankDetail]]
         ELSE [status |-> 200,
               body |-> [summary |-> SummarizeText(q.text, q.n, q.lang, q.hist[1].osum).summary]]
    [] q.ep = "news" ->
         IF q.fetched.kind # "ok"
         THEN [status |-> 502, body |-> [detail |-> FetchFailedPrefix \o FetchError(q.fetched)]]
         ELSE LET a == AloneLoop(q.fetched.articles, q.lang, q.n, q.hist, Len(q.hist))
              IN  IF a.raised THEN [status |-> 500, body |-> [error |-> "textblob"]]
                  ELSE [status |-> 200,
                        body |-> [total |-> Len(a.results),
                                  sentiment_summary |->
                                    IF q.fetched.articles = << >> THEN EmptySummary
                                    ELSE a.counts,
                                  articles |-> a.results]]

\* C19: under every interleaving of one call of _analyze_sentiment and two
\* API requests, the call's result and each request's response are the ones
\* the same call or request gives when run alone with the collaborator
\* responses it received; a /news request in its loop holds the histogram of
\* its own articles only.
C19_NoInterference ==
  /\ pc = "done" =>
       result = AnalyzeSentiment(text, language, reply,
                                 [kind |-> "ok", polarity |-> tb_polarity]).result
  /\ \A r \in Requests :
       /\ rq[r].st = "done" =>
            (rq[r].status = Alone(rq[r]).status /\ rq[r].body = Alone(rq[r]).body)
       /\ rq[r].st = "loop" =>
            \A l \in Labels : rq[r].counts[l] = LabelCount(rq[r].results, l)

C19_Witness ==
  /\ pc = "fuse"
  /\ rq[1].st = "done" /\ rq[1].ep = "news" /\ rq[1].status = 200
  /\ rq[1].body.total = 2
  /\ rq[2].st = "loop" /\ rq[2].i = 2

\* C21: in GET /news every analysed article whose title is missing, null or
\* empty has the placeholder title, its analysed text is rejected by the
\* validity gate whatever the description is, so its sentiment is Neutral
\* with polarity 0.0 and method "none", and neither the translator nor the
\* classifier was called for it.
C21_NoTitleIsNeutral ==
  \A r \in Requests :
    rq[r].ep = "news" =>
      \A i \in DOMAIN rq[r].results :
        rq[r].raw[i].title \in {NoneText, << >>} =>
          /\ rq[r].results[i].title = MarkNoTitle
          /\ rq[r].results[i].sentiment.label = "Neutral"
          /\ rq[r].results[i].sentiment.polarity = 0
          /\ rq[r].results[i].sentiment.method = <<"none">>
          /\ rq[r].results[i].sentiment.analyzed_text = Unanalyzable
          /\ rq[r].hist[i].otr = NoReply
          /\ rq[r].hist[i].otb = NoPolarity

C21_Witness ==
  /\ rq[1].ep = "news"
  /\ rq[1].st = "done"
  /\ rq[1].status = 200
  /\ Len(rq[1].results) = 2
  /\ rq[1].raw[1].title = << >>
  /\ rq[1].raw[1].description = TxtJoy
  /\ rq[1].raw[2].title = NoneText
  /\ rq[1].raw[2].description = TxtGoodNews
  /\ rq[1].results[1].sentiment.label = "Neutral"
  /\ rq[1].calls.translate = 0
  /\ rq[1].calls.textblob = 0

====
